---- MODULE Spec2Model ----
(***************************************************************************)
(* Fly-Pie: the menu session (server/Menu.js) and the request dispatcher   *)
(* (daemon/Daemon.js).                                                     *)
(*                                                                         *)
(* Representation                                                          *)
(*  - A menu item is a record [angle, id, hasItems, hasChildren, items].   *)
(*    JavaScript's `undefined` is NoAngle for an angle and the empty       *)
(*    string for an id.  Menu.js reads the list of a node as `items`,      *)
(*    Daemon.js fills and walks `children`: hasItems and hasChildren tell  *)
(*    under which of the two names the node's list can be read (a node     *)
(*    with two different lists does not occur).  The nodes of a request    *)
(*    text carry `items`.  The nodes of a configured menu are made by      *)
(*    ItemRegistry's createItem, which is not part of the sources: the     *)
(*    variable itemShape tells which list properties its nodes carry.      *)
(*    Only a node whose list answers to both names, the one sequence of    *)
(*    children of the specification's MenuItemNode, can be shown by the    *)
(*    menu and walked by the daemon.                                       *)
(*  - An angle is a JavaScript number with at most 16 binary places: the   *)
(*    integer n stands for the double n / DegreeUnits.  On these numbers   *)
(*    the +, -, %, comparisons and products with a count of the layout are *)
(*    exact in IEEE 754 arithmetic, so the integer operations of the model *)
(*    are the operations of the code.  A division is exact when its        *)
(*    quotient is such a number again; Quotient is defined in that case    *)
(*    only, and the lists of the model are chosen so that every wedge has  *)
(*    such a gap.  Where the code rounds a quotient the model says         *)
(*    nothing.                                                             *)
(*  - Strings that the code takes apart (item ids, paths) are sequences of *)
(*    one-character strings.                                               *)
(*  - Daemon.js imports its Menu from daemon/Menu.js, which is not part of *)
(*    the sources, and builds it with two callbacks, (onSelect, onCancel). *)
(*    The Menu of the sources is server/Menu.js, whose constructor takes   *)
(*    (onHover, onSelect, onCancel).  The variable menuClass tells which   *)
(*    Menu the daemon has built.  With "server" it is the class of         *)
(*    server/Menu.js as it stands: the two callbacks land in _onHover and  *)
(*    _onSelect, _onCancel is undefined, every cancelling handler throws   *)
(*    before _hide, and there is no step that delivers a selection.  With  *)
(*    "daemon" it is a class that takes (onSelect, onCancel) and is        *)
(*    server/Menu.js otherwise, with the selection handler that the        *)
(*    specification describes as resolve.                                  *)
(***************************************************************************)
EXTENDS Integers, Sequences, FiniteSets, TLC

VARIABLES
  menuID,             \* Menu._menuID: NullID or the id of the shown menu
  structure,          \* Menu._structure
  editMode,           \* Menu._editMode
  nextID,             \* Daemon._nextID
  currentMenuConfig,  \* Daemon._currentMenuConfig
  menuConfigs,        \* Daemon._menuConfigs
  bound,              \* the shortcuts the Shortcuts object has bound
  last,               \* what the last handler did (its return value, signals, ...)
  origin,             \* history: which request opened the session now shown
  openedInEdit,       \* history: whether that request asked for preview mode
  lastGranted,        \* history: the id the last successful request returned
  given,              \* a call of a method on its own: the item list passed
  givenParent,        \* ... and the parent angle passed (_updateItemAngles)
  work,               \* ... the return value and the item list afterwards
  before,             \* ... the item list before the last call
  stage,              \* ... which call has been made last
  resolved,           \* ... what following a path has led to
  itemShape,          \* the list properties of a node made by createItem
  menuClass           \* the Menu the daemon has built: its constructor

\* the state of the daemon and its menu
svars == <<menuID, structure, editMode, nextID, currentMenuConfig, menuConfigs,
           bound, last, origin, openedInEdit,
           lastGranted>>
\* the state of a method called on its own
fvars == <<given, givenParent, work, before, stage, resolved, itemShape,
           menuClass>>

vars == <<svars, fvars>>

----------------------------------------------------------------------------
(* Bounds of the model *)

\* the largest number of item nodes in a menu description sent over the D-Bus
MaxNodes == 1
\* requests are accepted while Daemon._nextID is below this
MaxID == 3
\* the number of menus in the non-empty menu configuration
MaxMenus == 4

----------------------------------------------------------------------------
(* Values *)

\* the doubles of the model are the multiples of 1 / DegreeUnits; an integer
\* n stands for the angle of n / DegreeUnits degrees
DegreeUnits == 2 ^ 16
Deg(d) == d * DegreeUnits

\* a / n for a number a and a count n, where the division is exact: the
\* quotient is a multiple of 1 / DegreeUnits (not defined where the code
\* rounds)
Quotient(a, n) == CHOOSE q \in {a \div n} : q * n = a

\* `undefined` / null
NoAngle == 0 - 1
NullID == 0 - 1
NoID == <<>>

\* JavaScript truthiness of a number-or-undefined: undefined and 0 are falsy
TruthyNumber(x) == x # NoAngle /\ x # 0
\* JavaScript truthiness of Menu._menuID: null and 0 are falsy
TruthyID(x) == x # NullID /\ x # 0
\* JavaScript truthiness of a string-or-undefined
TruthyString(s) == Len(s) > 0

Abs(x) == IF x < 0 THEN 0 - x ELSE x

\* Op applied to the value of v, v evaluated once (a local const)
Let(v, Op(_)) == CHOOSE y \in {Op(x) : x \in {v}} : TRUE

\* the sequence f as a tuple of evaluated elements
Array(f) == f \o <<>>

Item(a, i, c) ==
  [angle |-> a, id |-> i, hasItems |-> TRUE, hasChildren |-> FALSE, items |-> c]
Leaf(a, i) ==
  [angle |-> a, id |-> i, hasItems |-> FALSE, hasChildren |-> FALSE,
   items |-> <<>>]

\* DBusInterface.errorCodes
eUnknownError == 0 - 1
eInvalidJSON == 0 - 2
ePropertyMissing == 0 - 3
eInvalidAngles == 0 - 4
eNoSuchMenu == 0 - 5
eAlreadyActive == 0 - 6
ErrorCodes == {eUnknownError, eInvalidJSON, ePropertyMissing, eInvalidAngles,
               eNoSuchMenu, eAlreadyActive}

----------------------------------------------------------------------------
(* Menu._updateItemAngles *)

\* the items carrying a (truthy) angle, with their 0-based index
FixedAngles(items) ==
  SelectSeq([k \in 1..Len(items) |-> [angle |-> items[k].angle, index |-> k - 1]],
            LAMBDA e: TruthyNumber(e.angle))

\* fixed angles increase strictly and lie in [0, 360)
FixedAnglesValid(fixed) ==
  \A i \in 1..Len(fixed):
    /\ ~(i > 1 /\ fixed[i].angle <= fixed[i-1].angle)
    /\ ~(fixed[i].angle < 0 \/ fixed[i].angle >= Deg(360))

\* a fixed angle closer than one degree to the parent link
ParentCollides(fixed, parentAngle) ==
  /\ TruthyNumber(parentAngle)
  /\ \E i \in 1..Len(fixed): Abs(fixed[i].angle - parentAngle) < Deg(1)

\* a first angle that is always on the left
FirstAngleLeft(parentAngle) == Deg(270)

\* the angle given to the first item when no item has a fixed angle
FirstAngle(parentAngle) ==
  IF TruthyNumber(parentAngle) /\ parentAngle < Deg(180) THEN Deg(270) ELSE Deg(90)

\* the wedge between fixed angle i and its successor (i is 1-based);
\* parentAngle is the local variable as the earlier wedges left it
Wedge(items, fixed, i, parentAngle) ==
  LET b == fixed[i]
      e == fixed[(i % Len(fixed)) + 1]
      endAngle == IF b.angle <= e.angle THEN e.angle + Deg(360) ELSE e.angle
      between == (e.index - b.index - 1 + Len(items)) % Len(items)
      p == IF parentAngle # NoAngle /\ parentAngle < b.angle
           THEN parentAngle + Deg(360) ELSE parentAngle
      inWedge == parentAngle # NoAngle /\ p > b.angle /\ p < endAngle
      count == IF inWedge THEN between + 1 ELSE between
  IN [beginIndex |-> b.index, beginAngle |-> b.angle,
      endIndex |-> e.index, endAngle |-> endAngle,
      itemCount |-> count, parentAngle |-> p, parentInWedge |-> inWedge,
      itemGap |-> Quotient(endAngle - b.angle, count + 1)]

\* the while loop of one wedge: index runs to the wedge's end index
RECURSIVE WedgeLoop(_, _, _, _, _)
WedgeLoop(items, w, index, count, parentGapRequired) ==
  IF index = w.endIndex THEN items
  ELSE LET itemAngle == w.beginAngle + w.itemGap * count
           \* itemAngle + wedgeItemGap / 2 - parentAngle > 0, times two
           insert == parentGapRequired
                       /\ 2 * itemAngle + w.itemGap - 2 * w.parentAngle > 0
           c == IF insert THEN count + 1 ELSE count
           a == w.beginAngle + w.itemGap * c
       IN WedgeLoop([items EXCEPT ![index + 1].angle = a % Deg(360)], w,
                    (index + 1) % Len(items), c + 1,
                    parentGapRequired /\ ~insert)

\* the for loop over the wedges, from wedge i on
RECURSIVE AssignWedges(_, _, _, _)
AssignWedges(items, fixed, i, parentAngle) ==
  IF i > Len(fixed) THEN items
  ELSE LET w == Wedge(items, fixed, i, parentAngle)
       IN AssignWedges(
            WedgeLoop(items, w, (w.beginIndex + 1) % Len(items), 1, w.parentInWedge),
            fixed, i + 1, w.parentAngle)

\* fixedAngles as the loop over the wedges finds it: the angle properties,
\* or the angle given to the first item when there is none
LevelFixed(items, parentAngle) ==
  IF Len(FixedAngles(items)) = 0
  THEN <<[angle |-> FirstAngle(parentAngle), index |-> 0]>>
  ELSE FixedAngles(items)

\* the wedges as the for loop computes them one after the other, from wedge
\* i on
RECURSIVE WedgesFrom(_, _, _, _)
WedgesFrom(items, fixed, i, parentAngle) ==
  IF i > Len(fixed) THEN <<>>
  ELSE LET w == Wedge(items, fixed, i, parentAngle)
       IN <<w>> \o WedgesFrom(items, fixed, i + 1, w.parentAngle)

\* the angles of one level, children not yet visited
LevelResult(items, parentAngle) ==
  LET fixed == FixedAngles(items)
  IN IF ~FixedAnglesValid(fixed) \/ ParentCollides(fixed, parentAngle)
     THEN [ok |-> FALSE, items |-> items]
     ELSE IF Len(fixed) = 0
     THEN LET first == FirstAngle(parentAngle)
              withFirst == [items EXCEPT ![1].angle = first]
          IN [ok |-> TRUE,
              items |-> AssignWedges(withFirst, <<[angle |-> first, index |-> 0]>>,
                                     1, parentAngle)]
     ELSE [ok |-> TRUE, items |-> AssignWedges(items, fixed, 1, parentAngle)]

\* what the forEach over the children contributes to the return value: the
\* `return false` of its callback leaves the callback only
ChildrenResult(childOks) == TRUE

\* returns [ok, items]: the return value and the item list as it is afterwards
RECURSIVE UpdateItemAngles(_, _)
UpdateItemAngles(items, parentAngle) ==
  IF Len(items) = 0 THEN [ok |-> TRUE, items |-> items]
  ELSE Let(LevelResult(items, parentAngle), LAMBDA level:
         IF ~level.ok THEN level
         ELSE Let(Array([k \in 1..Len(items) |->
                     IF level.items[k].hasItems
                     THEN UpdateItemAngles(level.items[k].items,
                                           (level.items[k].angle + Deg(180)) % Deg(360))
                     ELSE [ok |-> TRUE, items |-> level.items[k].items]]),
                  LAMBDA child:
                    [ok |-> ChildrenResult([k \in 1..Len(items) |-> child[k].ok]),
                     items |-> Array([k \in 1..Len(items) |->
                                 [level.items[k] EXCEPT !.items = child[k].items]])]))

----------------------------------------------------------------------------
(* Menu._updateItemIDs *)

Digits == <<"0", "1", "2", "3", "4", "5", "6", "7", "8", "9">>

\* a text that is the same for every number
NumberToStringZero(n) == <<"0">>

\* the decimal text of a number, as string concatenation produces it
RECURSIVE NumberToString(_)
NumberToString(n) ==
  IF n < 10 THEN <<Digits[n + 1]>>
  ELSE NumberToString(n \div 10) \o <<Digits[(n % 10) + 1]>>

\* an assignment that extends the id an item has by its index
AppendItemIDs(items, parentID) ==
  Array([k \in 1..Len(items) |->
    [items[k] EXCEPT !.id = @ \o <<"/">> \o NumberToString(k - 1)]])

\* an assignment that writes the id of every item, also over an id the item
\* came with
RECURSIVE OverwriteItemIDs(_, _)
OverwriteItemIDs(items, parentID) ==
  Array([k \in 1..Len(items) |->
    LET item == items[k]
        id == IF TruthyString(parentID)
              THEN parentID \o <<"/">> \o NumberToString(k - 1)
              ELSE <<"/">> \o NumberToString(k - 1)
    IN [item EXCEPT !.id = id,
                    !.items = IF item.hasItems THEN OverwriteItemIDs(item.items, id)
                              ELSE item.items]])

\* _updateItemIDs(items, parentID): the item list afterwards
RECURSIVE UpdateItemIDs(_, _)
UpdateItemIDs(items, parentID) ==
  Array([k \in 1..Len(items) |->
    LET item == items[k]
        id == IF TruthyString(item.id) THEN item.id
              ELSE IF TruthyString(parentID)
                   THEN parentID \o <<"/">> \o NumberToString(k - 1)
                   ELSE <<"/">> \o NumberToString(k - 1)
    IN [item EXCEPT !.id = id,
                    !.items = IF item.hasItems THEN UpdateItemIDs(item.items, id)
                              ELSE item.items]])

----------------------------------------------------------------------------
(* Menu: show, _hide and the handlers of the background's events *)

\* null, and Menu._structure as the constructor leaves it ({})
Null == [isNull |-> TRUE]
EmptyObject == [isNull |-> FALSE, hasItems |-> FALSE, hasChildren |-> FALSE,
                items |-> <<>>, actor |-> FALSE]
\* a menu description with an item list; actor: show has built its actors
Root(c) == [isNull |-> FALSE, hasItems |-> TRUE, hasChildren |-> FALSE,
            items |-> c, actor |-> FALSE]

MenuState(id, s, e) == [menuID |-> id, structure |-> s, editMode |-> e]

\* the guard of show: "the menu is already active"
AlreadyActive(id) == TruthyID(id)

\* a check for a root item list that an empty list passes
HasItemsProperty(s) == s.hasItems

\* the check of show for a root item list
HasRootItems(s) == s.hasItems /\ Len(s.items) > 0

\* show(menuID, structure, editMode) on the menu m; grab is the result of
\* Background.show.  Returns the return value (or threw) and the menu afterwards.
MenuShow(m, id, s, edit, grab) ==
  IF AlreadyActive(m.menuID)
  THEN [ret |-> eAlreadyActive, threw |-> FALSE, menu |-> m]
  ELSE IF s.isNull
  THEN \* reading structure.items of null throws a TypeError
       [ret |-> 0, threw |-> TRUE, menu |-> m]
  ELSE IF ~HasRootItems(s)
  THEN [ret |-> ePropertyMissing, threw |-> FALSE, menu |-> m]
  ELSE Let(UpdateItemAngles(s.items, NoAngle), LAMBDA angles:
         LET stored == [m EXCEPT !.structure = [s EXCEPT !.items = angles.items],
                                 !.editMode = edit]
             withIDs == [stored EXCEPT !.structure.items = UpdateItemIDs(@, NoID)]
         IN IF ~angles.ok
            THEN [ret |-> eInvalidAngles, threw |-> FALSE, menu |-> stored]
            ELSE IF ~grab
            THEN [ret |-> eUnknownError, threw |-> FALSE, menu |-> withIDs]
            ELSE [ret |-> id, threw |-> FALSE,
                  menu |-> [withIDs EXCEPT !.menuID = id,
                                           !.structure.actor = TRUE]])

\* a _hide that leaves the menu id in place
MenuStaysShown(m) == m

\* _hide()
MenuHide(m) ==
  IF m.menuID = NullID THEN m ELSE [m EXCEPT !.menuID = NullID]

\* the button of a button-release-event that cancels the menu
CancelButton == 3

\* whether the button-release handler cancels
ButtonCancels(button, edit) == button = CancelButton /\ ~edit

----------------------------------------------------------------------------
(* Daemon *)

NoSignal == [name |-> "none"]
OnSelectSignal(id, path) == [name |-> "OnSelect", id |-> id, path |-> path]
OnCancelSignal(id) == [name |-> "OnCancel", id |-> id]
NoActivation == [activated |-> FALSE]
Activation(config, indices) ==
  [activated |-> TRUE, config |-> config, indices |-> indices]

\* a parser that accepts every text
JSONParseLenient(text) == [threw |-> FALSE, value |-> text.value]

\* JSON.parse on a text: a malformed text throws
JSONParse(text) == [threw |-> ~text.wellFormed, value |-> text.value]

\* a counter that is not increased
NextIDStuck(n) == n

\* the id the next call of show gets, and Daemon._nextID after it (_nextID++)
NextIDAfter(n) == n + 1

\* _openCustomMenu(config, previewMode); config is a text ([isString |-> TRUE,
\* text]) or an object ([isString |-> FALSE, value])
OpenCustomMenu(m, nid, config, previewMode, grab) ==
  LET parsed == IF config.isString THEN JSONParse(config.text)
                ELSE [threw |-> FALSE, value |-> config.value]
  IN IF parsed.threw
     THEN [ret |-> eInvalidJSON, showCalled |-> FALSE, threw |-> FALSE,
           menu |-> m, nextID |-> nid]
     ELSE Let(MenuShow(m, nid, parsed.value, previewMode, grab), LAMBDA r:
            [ret |-> IF r.threw THEN eUnknownError ELSE r.ret,
             showCalled |-> TRUE, threw |-> r.threw,
             menu |-> r.menu, nextID |-> NextIDAfter(nid)])

\* the list properties a node made by createItem may carry: `children`
\* only, `items` only, or one list under both names
ItemShapes == {"children", "items", "both"}

\* ItemRegistry.ItemTypes[type].createItem(name, icon, angle, data): a node
\* with the angle of the configuration, no id and an empty list under the
\* names of the shape
CreateItem(shape, angle) ==
  [angle |-> angle, id |-> NoID, hasItems |-> shape \in {"items", "both"},
   hasChildren |-> shape \in {"children", "both"}, items |-> <<>>]

\* _transformConfig on the children of an entry: each child is created and
\* its transformed children are pushed to its list `children`
RECURSIVE TransformItems(_, _)
TransformItems(shape, children) ==
  Array([k \in 1..Len(children) |->
     [CreateItem(shape, children[k].angle)
        EXCEPT !.items = @ \o TransformItems(shape, children[k].children)]])

\* _transformConfig on a menu of the configuration: the menu is created as
\* its items are, and show reads its list as the root item list `items`
TransformConfig(shape, config) ==
  [isNull |-> FALSE, hasItems |-> CreateItem(shape, NoAngle).hasItems,
   hasChildren |-> CreateItem(shape, NoAngle).hasChildren,
   items |-> CreateItem(shape, NoAngle).items
               \o TransformItems(shape, config.children),
   actor |-> FALSE]

\* _transformConfig throws: reading config.children.length of an entry
\* without children is a TypeError, and so is result.children.push on a
\* node made without `children`
RECURSIVE TransformThrows(_, _)
TransformThrows(shape, config) ==
  \/ ~config.hasChildren
  \/ Len(config.children) > 0 /\ ~CreateItem(shape, NoAngle).hasChildren
  \/ \E k \in 1..Len(config.children): TransformThrows(shape, config.children[k])

\* a lookup that falls back to the first configured menu
FindMenuOrFirst(configs, name) ==
  IF \E i \in 1..Len(configs): configs[i].name = name
  THEN CHOOSE i \in 1..Len(configs):
         /\ configs[i].name = name
         /\ \A j \in 1..(i - 1): configs[j].name # name
  ELSE IF Len(configs) > 0 THEN 1 ELSE 0

\* the index of the first configured menu with this name, 0 if there is none
FindMenu(configs, name) ==
  IF \E i \in 1..Len(configs): configs[i].name = name
  THEN CHOOSE i \in 1..Len(configs):
         /\ configs[i].name = name
         /\ \A j \in 1..(i - 1): configs[j].name # name
  ELSE 0

\* a store that is left out in preview mode
StoresConfigUnlessPreview(result, previewMode) == result >= 0 /\ ~previewMode

\* whether _openMenu stores the config: if (result >= 0)
StoresConfig(result, previewMode) == result >= 0

\* _openMenu(name, previewMode); cur is _currentMenuConfig
OpenMenu(shape, m, nid, cur, configs, name, previewMode, grab) ==
  LET i == FindMenu(configs, name)
  IN IF i = 0
     THEN [ret |-> eNoSuchMenu, showCalled |-> FALSE, threw |-> FALSE,
           escaped |-> FALSE, menu |-> m, nextID |-> nid, cur |-> cur]
     ELSE IF TransformThrows(shape, configs[i])
     THEN \* nothing in _openMenu catches the exception: no return value
          [ret |-> 0, showCalled |-> FALSE, threw |-> TRUE,
           escaped |-> TRUE, menu |-> m, nextID |-> nid, cur |-> cur]
     ELSE Let(OpenCustomMenu(m, nid,
                 [isString |-> FALSE,
                  value |-> TransformConfig(shape, configs[i])],
                 previewMode, grab),
              LAMBDA r:
                [ret |-> r.ret, showCalled |-> r.showCalled, threw |-> r.threw,
                 escaped |-> FALSE, menu |-> r.menu, nextID |-> r.nextID,
                 \* config is the object show has stored and laid out
                 cur |-> IF StoresConfig(r.ret, previewMode)
                         THEN r.menu.structure ELSE cur])

\* a split that leaves the path in one piece
SplitNone(path) == <<path>>

\* path.split('/')
RECURSIVE Split(_)
Split(path) ==
  IF \E k \in 1..Len(path): path[k] = "/"
  THEN LET k == CHOOSE j \in 1..Len(path):
                  path[j] = "/" /\ \A h \in 1..(j - 1): path[h] # "/"
       IN <<SubSeq(path, 1, k - 1)>> \o Split(SubSeq(path, k + 1, Len(path)))
  ELSE <<path>>

\* children[segment]: the 0-based index the property name denotes, -1 if the
\* array has no such element
ChildIndex(children, segment) ==
  IF \E i \in 0..(Len(children) - 1): NumberToString(i) = segment
  THEN CHOOSE i \in 0..(Len(children) - 1): NumberToString(i) = segment
  ELSE 0 - 1

\* the loop of _onSelect from pathElements[i] on: the 0-based indices walked,
\* or threw when a step reads a property of undefined
RECURSIVE FollowPath(_, _, _)
FollowPath(item, pathElements, i) ==
  IF i > Len(pathElements) THEN [threw |-> FALSE, indices |-> <<>>]
  ELSE IF ~item.hasChildren THEN [threw |-> TRUE, indices |-> <<>>]
  ELSE LET c == ChildIndex(item.items, pathElements[i])
       IN IF c < 0 THEN [threw |-> TRUE, indices |-> <<>>]
          ELSE LET rest == FollowPath(item.items[c + 1], pathElements, i + 1)
               IN [threw |-> rest.threw, indices |-> <<c>> \o rest.indices]

\* _onSelect(menuID, path)
DaemonOnSelect(cur, id, path) ==
  IF cur # Null
  THEN LET walk == FollowPath(cur, Split(path), 2)
       IN IF walk.threw
          THEN [threw |-> TRUE, signal |-> NoSignal, activation |-> NoActivation,
                cur |-> cur]
          ELSE [threw |-> FALSE, signal |-> NoSignal,
                activation |-> Activation(cur, walk.indices), cur |-> Null]
  ELSE [threw |-> FALSE, signal |-> OnSelectSignal(id, path),
        activation |-> NoActivation, cur |-> cur]

\* the Menu classes the daemon may have built: the Menu of server/Menu.js,
\* or a Menu whose constructor takes (onSelect, onCancel)
MenuClasses == {"server", "daemon"}

\* new Menu(onSelect, onCancel) of Daemon.js: the callback of the daemon that
\* each field of the menu holds after the constructor.  The constructor of
\* server/Menu.js assigns (onHover, onSelect, onCancel) in this order, and a
\* parameter without argument is undefined.
MenuCallbacks(class) ==
  IF class = "server"
  THEN [onHover |-> "_onSelect", onSelect |-> "_onCancel",
        onCancel |-> "undefined"]
  ELSE [onHover |-> "undefined", onSelect |-> "_onSelect",
        onCancel |-> "_onCancel"]

\* an _onCancel that emits OnCancel for every menu
DaemonOnCancelAlways(cur, id) == [signal |-> OnCancelSignal(id), cur |-> Null]

\* _onCancel(menuID)
DaemonOnCancel(cur, id) ==
  IF cur # Null
  THEN [signal |-> NoSignal, cur |-> Null]
  ELSE [signal |-> OnCancelSignal(id), cur |-> cur]

\* the set of required hotkeys of _onMenuConfigsChanged
NewShortcuts(configs) ==
  {configs[i].data : i \in {j \in 1..Len(configs) : configs[j].data # ""}}

\* the shortcuts _onMenuConfigsChanged unbinds and those it binds
ToUnbind(existing, configs) == existing \ NewShortcuts(configs)
ToBind(existing, configs) == NewShortcuts(configs) \ existing

\* newShortcuts as the loop over the configuration fills it: a Set keeps one
\* entry per shortcut, in the order of first insertion
RECURSIVE AddShortcuts(_, _, _)
AddShortcuts(configs, i, set) ==
  IF i > Len(configs) THEN set
  ELSE AddShortcuts(configs, i + 1,
         IF configs[i].data # "" /\ \A k \in 1..Len(set): set[k] # configs[i].data
         THEN Append(set, configs[i].data)
         ELSE set)

\* getBound(): every bound shortcut, once
GetBound(existing) ==
  CHOOSE list \in [1..Cardinality(existing) -> existing]:
    {list[k] : k \in 1..Cardinality(existing)} = existing

\* the loop over getBound() unbinding every bound shortcut
UnbindAll(existing, configs) == GetBound(existing)

\* the loop over getBound() unbinding nothing
UnbindNothing(existing, configs) == <<>>

\* the loop over getBound(): the unbind calls it makes, and what is left
\* of newShortcuts after its delete calls
UnbindCalls(existing, configs) ==
  SelectSeq(GetBound(existing), LAMBDA s: s \notin NewShortcuts(configs))

\* a worklist that keeps the shortcuts that are bound already
RebindAll(existing, configs) == AddShortcuts(configs, 1, <<>>)

Remaining(existing, configs) ==
  SelectSeq(AddShortcuts(configs, 1, <<>>), LAMBDA s: s \notin existing)

\* the bind loop stopped by the first failure
BindUntilFailure(worklist, failing) ==
  [bound |-> {worklist[k] : k \in {j \in 1..Len(worklist) :
                 \A h \in 1..j: worklist[h] \notin failing}},
   reported |-> {worklist[k] : k \in {j \in 1..Len(worklist) :
                 /\ worklist[j] \in failing
                 /\ \A h \in 1..(j - 1): worklist[h] \notin failing}}]

\* the bind loop: bind() of a shortcut of failing fails and reports it, the
\* loop goes on with the next shortcut
BindAll(worklist, failing) ==
  [bound |-> {worklist[k] : k \in 1..Len(worklist)} \ failing,
   reported |-> {worklist[k] : k \in 1..Len(worklist)} \cap failing]

\* _onMenuConfigsChanged() on the binding table: the calls it makes and the
\* bound set it leaves
Reconcile(existing, configs, failing) ==
  [unbind |-> UnbindCalls(existing, configs),
   bind |-> Remaining(existing, configs),
   reported |-> BindAll(Remaining(existing, configs), failing).reported,
   bound |-> (existing \ {UnbindCalls(existing, configs)[k] :
                            k \in 1..Len(UnbindCalls(existing, configs))})
               \cup BindAll(Remaining(existing, configs), failing).bound]

----------------------------------------------------------------------------
(* The inputs of the model *)

\* the angles an item of a request may carry: none, or one outside [0, 360)
SessionAngles == {NoAngle, Deg(400)}

\* the item lists (forests) with exactly n nodes; a node without children has
\* no `items` property
RECURSIVE Forests(_)
RECURSIVE Trees(_)
Trees(n) ==
  IF n = 1 THEN {Leaf(a, NoID) : a \in SessionAngles}
  ELSE {Item(a, NoID, c) : a \in SessionAngles, c \in Forests(n - 1)}
Forests(n) ==
  IF n = 0 THEN {<<>>}
  ELSE UNION {{<<t>> \o f : t \in Trees(k), f \in Forests(n - k)} : k \in 1..n}

\* what a text sent to ShowCustomMenu can parse to
CustomStructures ==
  {Null, EmptyObject, Root(<<>>)}
    \cup UNION {{Root(f) : f \in Forests(n)} : n \in 1..MaxNodes}

\* the texts sent to ShowCustomMenu / PreviewCustomMenu
Texts ==
  {[wellFormed |-> FALSE, value |-> Null]}
    \cup {[wellFormed |-> TRUE, value |-> s] : s \in CustomStructures}

ConfigItem(a, c) == [angle |-> a, hasChildren |-> TRUE, children |-> c]
MenuConfig(n, d, c) ==
  [name |-> n, data |-> d, hasChildren |-> TRUE, children |-> c]
\* an entry of the setting that has no children property
ChildlessConfig(n, d) ==
  [name |-> n, data |-> d, hasChildren |-> FALSE, children |-> <<>>]

\* the menus a configuration is made of: a menu with a submenu, a menu
\* whose submenu collides with its parent link, a menu whose fixed angles do
\* not increase, an entry without children property, a menu without items,
\* and a second menu under the first one's name
AllMenus ==
  <<MenuConfig("a", "F1", <<ConfigItem(NoAngle, <<ConfigItem(NoAngle, <<>>)>>),
                            ConfigItem(NoAngle, <<>>)>>),
    MenuConfig("c", "", <<ConfigItem(NoAngle, <<ConfigItem(Deg(270), <<>>),
                                                ConfigItem(NoAngle, <<>>)>>)>>),
    MenuConfig("d", "", <<ConfigItem(Deg(270), <<>>), ConfigItem(Deg(270), <<>>)>>),
    ChildlessConfig("e", ""),
    MenuConfig("b", "", <<>>),
    MenuConfig("a", "F2", <<ConfigItem(Deg(270), <<>>)>>)>>

\* the values of the menu-configuration setting: no menu, or the first
\* MaxMenus menus
Configurations ==
  {<<>>, SubSeq(AllMenus, 1, IF MaxMenus < Len(AllMenus) THEN MaxMenus
                             ELSE Len(AllMenus))}

\* the names a ShowMenu / PreviewMenu request may carry
MenuNames == {AllMenus[i].name : i \in 1..Len(AllMenus)} \cup {"missing"}

\* the buttons of a button-release-event
Buttons == {1, CancelButton}

\* some level of the tree fails the checks of the layout, the levels above
\* it laid out as the code lays them out
RECURSIVE ConflictAnywhere(_, _)
ConflictAnywhere(items, parentAngle) ==
  /\ Len(items) > 0
  /\ \E level \in {LevelResult(items, parentAngle)}:
        \/ ~level.ok
        \/ \E k \in 1..Len(items):
             /\ level.items[k].hasItems
             /\ ConflictAnywhere(level.items[k].items,
                                 (level.items[k].angle + Deg(180)) % Deg(360))

\* the ids of all items of a list
RECURSIVE ItemIDs(_)
ItemIDs(items) ==
  UNION {{items[k].id} \cup (IF items[k].hasItems THEN ItemIDs(items[k].items) ELSE {})
         : k \in 1..Len(items)}

\* what a request asks for, by the first check of show it runs into
StructureKind(s, grab) ==
  IF s.isNull THEN "null"
  ELSE IF ~s.hasItems \/ s.items = <<>> THEN "noitems"
  ELSE IF ~LevelResult(s.items, NoAngle).ok THEN "conflict"
  ELSE IF ConflictAnywhere(s.items, NoAngle) THEN "nestedconflict"
  ELSE IF ~grab THEN "nograb"
  ELSE "valid"

TextKind(text, grab) ==
  IF ~text.wellFormed THEN "malformed" ELSE StructureKind(text.value, grab)

NameKind(shape, configs, name, grab) ==
  IF \A i \in 1..Len(configs): configs[i].name # name THEN "nomatch"
  ELSE LET i == CHOOSE j \in 1..Len(configs):
                  /\ configs[j].name = name
                  /\ \A h \in 1..(j - 1): configs[h].name # name
       IN IF TransformThrows(shape, configs[i]) THEN "badconfig"
          ELSE StructureKind(TransformConfig(shape, configs[i]), grab)

\* the handlers of the requests, and those that close the menu: the ones
\* that reach _hide.  A cancelling handler that throws at the call of
\* this._onCancel ("cancel-threw") does not reach it.
RequestOps == {"configured", "custom"}
CloseOps == {"cancel", "select", "select-threw"}

\* what a handler did: its kind, for a request what it asked for, its return
\* value and whether it called show, for a selection the path, the signal
\* emitted on the D-Bus and the item activated
Outcome(op, req, ret, showCalled, path, signal, activation) ==
  [op |-> op, req |-> req, ret |-> ret, showCalled |-> showCalled,
   path |-> path, signal |-> signal, activation |-> activation]

\* the outcome of a handler that is no request and no selection
Handled(op, signal) == Outcome(op, "none", 0, FALSE, NoID, signal, NoActivation)

----------------------------------------------------------------------------
(* The state machine *)

\* no method is called on its own
NoCall ==
  /\ given = <<>>
  /\ givenParent = NoAngle
  /\ work = [ok |-> TRUE, items |-> <<>>]
  /\ before = <<>>
  /\ stage = "none"
  /\ resolved = [threw |-> FALSE, indices |-> <<>>, target |-> <<>>]

Init ==
  /\ NoCall
  /\ itemShape \in ItemShapes
  /\ menuClass \in MenuClasses
  /\ menuID = NullID
  /\ structure = EmptyObject
  /\ editMode = FALSE
  /\ nextID = 0
  /\ currentMenuConfig = Null
  /\ menuConfigs \in Configurations
  /\ \E failing \in SUBSET ToBind({}, menuConfigs):
       bound = Reconcile({}, menuConfigs, failing).bound
  /\ last = Handled("init", NoSignal)
  /\ origin = "none"
  /\ openedInEdit = FALSE
  /\ lastGranted = 0 - 1

\* the state after a request handled with result r
Requested(kind, req, r, cur) ==
  /\ menuID' = r.menu.menuID
  /\ structure' = r.menu.structure
  /\ editMode' = r.menu.editMode
  /\ nextID' = r.nextID
  /\ currentMenuConfig' = cur
  /\ origin' = IF r.ret >= 0 THEN kind ELSE origin
  /\ openedInEdit' = IF r.ret >= 0 THEN r.menu.editMode ELSE openedInEdit
  /\ lastGranted' = IF r.ret >= 0 THEN r.ret ELSE lastGranted
  /\ last' = Outcome(kind, req, r.ret, r.showCalled, NoID, NoSignal, NoActivation)
  /\ UNCHANGED <<menuConfigs, bound, fvars>>

NamedRequest(name, previewMode, grab) ==
  \E r \in {OpenMenu(itemShape, MenuState(menuID, structure, editMode), nextID,
                     currentMenuConfig, menuConfigs, name, previewMode, grab)}:
    IF r.escaped
    THEN /\ last' = Outcome("request-threw",
                            NameKind(itemShape, menuConfigs, name, grab),
                            0, FALSE, NoID, NoSignal, NoActivation)
         /\ UNCHANGED <<menuID, structure, editMode, nextID, currentMenuConfig,
                        menuConfigs, bound, origin, openedInEdit,
                        lastGranted, fvars>>
    ELSE Requested("configured",
                   NameKind(itemShape, menuConfigs, name, grab), r, r.cur)

CustomRequest(text, previewMode, grab) ==
  \E r \in {OpenCustomMenu(MenuState(menuID, structure, editMode), nextID,
                           [isString |-> TRUE, text |-> text], previewMode, grab)}:
    Requested("custom", TextKind(text, grab), r, currentMenuConfig)

ShowMenu ==
  /\ nextID < MaxID
  /\ \E name \in MenuNames, grab \in BOOLEAN: NamedRequest(name, FALSE, grab)

PreviewMenu ==
  /\ nextID < MaxID
  /\ \E name \in MenuNames, grab \in BOOLEAN: NamedRequest(name, TRUE, grab)

ShowCustomMenu ==
  /\ nextID < MaxID
  /\ \E text \in Texts, grab \in BOOLEAN: CustomRequest(text, FALSE, grab)

PreviewCustomMenu ==
  /\ nextID < MaxID
  /\ \E text \in Texts, grab \in BOOLEAN: CustomRequest(text, TRUE, grab)

\* the body shared by the three cancelling handlers:
\* this._onCancel(this._menuID); this._hide();
Cancelled ==
  IF MenuCallbacks(menuClass).onCancel = "undefined"
  THEN \* calling this._onCancel is a TypeError, _hide is not reached
       /\ last' = Handled("cancel-threw", NoSignal)
       /\ UNCHANGED <<menuID, structure, editMode, nextID, currentMenuConfig,
                      menuConfigs, bound, origin, openedInEdit,
                      lastGranted, fvars>>
  ELSE LET c == DaemonOnCancel(currentMenuConfig, menuID)
           m == MenuHide(MenuState(menuID, structure, editMode))
       IN /\ currentMenuConfig' = c.cur
          /\ menuID' = m.menuID
          /\ origin' = "none"
          /\ openedInEdit' = FALSE
          /\ last' = Handled("cancel", c.signal)
          /\ UNCHANGED <<structure, editMode, nextID, menuConfigs, bound,
                         lastGranted, fvars>>

\* The background delivers its events while it is shown, that is between a
\* show() that succeeded and the next _hide().
BackgroundShown == menuID # NullID

\* the handler of button-release-event, for the button released
ButtonReleasedWith(button) ==
  IF ButtonCancels(button, editMode)
  THEN Cancelled
  ELSE /\ last' = Handled("ignored", NoSignal)
       /\ UNCHANGED <<menuID, structure, editMode, nextID, currentMenuConfig,
                      menuConfigs, bound, origin, openedInEdit,
                      lastGranted, fvars>>

ButtonReleased == \E button \in Buttons: ButtonReleasedWith(button)

ButtonRelease ==
  /\ BackgroundShown
  /\ ButtonReleased

EditCancel ==
  /\ BackgroundShown
  /\ Cancelled

EditSave ==
  /\ BackgroundShown
  /\ Cancelled

\* The user selects the item with this id, one of the items show has built
\* actors for.  The menu transitions to Idle (_hide) and notifies onSelect
\* with the id of the session and the path.  server/Menu.js has no such
\* step: it is a step of the Menu that takes (onSelect, onCancel).
Select ==
  /\ BackgroundShown
  /\ MenuCallbacks(menuClass).onSelect = "_onSelect"
  /\ structure.actor
  /\ \E path \in ItemIDs(structure.items):
       \E s \in {DaemonOnSelect(currentMenuConfig, menuID, path)}:
       LET m == MenuHide(MenuState(menuID, structure, editMode))
       IN /\ currentMenuConfig' = s.cur
          /\ menuID' = m.menuID
          /\ origin' = "none"
          /\ openedInEdit' = FALSE
          /\ last' = Outcome(IF s.threw THEN "select-threw" ELSE "select", "none",
                             0, FALSE, path, s.signal, s.activation)
          /\ UNCHANGED <<structure, editMode, nextID, menuConfigs, bound,
                         lastGranted, fvars>>

\* _onMenuConfigsChanged(); failing are the shortcuts Shortcuts.bind cannot bind
\* a change of the setting that also forgets the menu that is open
ConfigsChangedForgetting(configs, failing) ==
  /\ menuConfigs' = configs
  /\ bound' = Reconcile(bound, configs, failing).bound
  /\ last' = Handled("config", NoSignal)
  /\ currentMenuConfig' = Null
  /\ UNCHANGED <<menuID, structure, editMode, nextID, origin,
                 openedInEdit, lastGranted>>

\* _onMenuConfigsChanged()
ConfigsChanged(configs, failing) ==
  /\ menuConfigs' = configs
  /\ bound' = Reconcile(bound, configs, failing).bound
  /\ last' = Handled("config", NoSignal)
  /\ UNCHANGED <<menuID, structure, editMode, nextID, currentMenuConfig,
                 origin, openedInEdit, lastGranted>>

OnMenuConfigsChanged ==
  \E configs \in Configurations:
    \E failing \in SUBSET ToBind(bound, configs):
      /\ ConfigsChanged(configs, failing)
      /\ UNCHANGED fvars

Next ==
  \/ ShowMenu
  \/ PreviewMenu
  \/ ShowCustomMenu
  \/ PreviewCustomMenu
  \/ ButtonRelease
  \/ EditCancel
  \/ EditSave
  \/ Select
  \/ OnMenuConfigsChanged

Spec == Init /\ [][Next]_vars

----------------------------------------------------------------------------
(* The same daemon with a background that delivers an event also while the
   menu is hidden: the handlers are connected once, in the constructor, and
   run whenever the background emits. *)

StrayButtonRelease ==
  /\ ~BackgroundShown
  /\ ButtonReleased

StrayEditCancel ==
  /\ ~BackgroundShown
  /\ Cancelled

StrayEditSave ==
  /\ ~BackgroundShown
  /\ Cancelled

EventNext ==
  \/ Next
  \/ StrayButtonRelease
  \/ StrayEditCancel
  \/ StrayEditSave

EventSpec == Init /\ [][EventNext]_vars

----------------------------------------------------------------------------
(* The daemon with configurations in which two menus carry the same
   shortcut, and the callback of the bound hotkeys.  What one press opened
   and which failures it notified is recorded in work. *)

\* two menus that open, and a menu without items followed by one that opens
HotkeyConfigurations ==
  {<<AllMenus[1], MenuConfig("f", "F1", <<ConfigItem(NoAngle, <<>>)>>)>>,
   <<MenuConfig("b", "F1", <<>>),
     MenuConfig("f", "F1", <<ConfigItem(NoAngle, <<>>)>>)>>}

\* the loop of the callback from entry i on: ShowMenu for every entry whose
\* data is the shortcut, a notification for every negative result; an
\* exception leaving ShowMenu ends the loop.  grabs[i] is the answer of the
\* background to the show that the ShowMenu for entry i makes, if it gets
\* that far: every show asks the background itself
RECURSIVE HotkeyLoop(_, _, _, _, _, _)
HotkeyLoop(shape, configs, i, shortcut, st, grabs) ==
  IF i > Len(configs) \/ st.escaped THEN st
  ELSE IF shortcut # configs[i].data
  THEN HotkeyLoop(shape, configs, i + 1, shortcut, st, grabs)
  ELSE Let(OpenMenu(shape, st.menu, st.nextID, st.cur, configs, configs[i].name,
                    FALSE, grabs[i]),
           LAMBDA r:
             HotkeyLoop(shape, configs, i + 1, shortcut,
               [menu |-> r.menu, nextID |-> r.nextID, cur |-> r.cur,
                escaped |-> r.escaped,
                opened |-> IF ~r.escaped /\ r.ret >= 0
                           THEN Append(st.opened, r.ret) ELSE st.opened,
                notified |-> IF ~r.escaped /\ r.ret < 0
                             THEN Append(st.notified, r.ret) ELSE st.notified],
               grabs))

\* the entries of the configuration that carry the shortcut
Matching(configs, shortcut) ==
  {i \in 1..Len(configs) : configs[i].data = shortcut}

HotkeyInit ==
  /\ NoCall
  /\ itemShape \in ItemShapes
  /\ menuClass \in MenuClasses
  /\ menuID = NullID
  /\ structure = EmptyObject
  /\ editMode = FALSE
  /\ nextID = 0
  /\ currentMenuConfig = Null
  /\ menuConfigs \in HotkeyConfigurations
  /\ bound = Reconcile({}, menuConfigs, {}).bound
  /\ last = Handled("init", NoSignal)
  /\ origin = "none"
  /\ openedInEdit = FALSE
  /\ lastGranted = 0 - 1

\* one of the bound hotkeys is pressed; the background answers each show of
\* the press on its own
HotkeyPressed ==
  \E shortcut \in bound, grabs \in [1..Len(menuConfigs) -> BOOLEAN]:
    /\ nextID + Cardinality(Matching(menuConfigs, shortcut)) <= MaxID
    /\ \E st \in {HotkeyLoop(itemShape, menuConfigs, 1, shortcut,
                      [menu |-> MenuState(menuID, structure, editMode),
                       nextID |-> nextID, cur |-> currentMenuConfig,
                       escaped |-> FALSE, opened |-> <<>>, notified |-> <<>>],
                      grabs)}:
         /\ menuID' = st.menu.menuID
         /\ structure' = st.menu.structure
         /\ editMode' = st.menu.editMode
         /\ nextID' = st.nextID
         /\ currentMenuConfig' = st.cur
         /\ origin' = IF st.opened # <<>> THEN "configured" ELSE origin
         /\ openedInEdit' = IF st.opened # <<>> THEN FALSE ELSE openedInEdit
         /\ lastGranted' = IF st.opened # <<>>
                           THEN st.opened[Len(st.opened)] ELSE lastGranted
         /\ last' = Handled("hotkey", NoSignal)
         /\ work' = [opened |-> st.opened, notified |-> st.notified,
                     escaped |-> st.escaped]
         /\ UNCHANGED <<menuConfigs, bound, given, givenParent, before, stage,
                        resolved, itemShape, menuClass>>

HotkeyNext ==
  \/ Next
  \/ HotkeyPressed

HotkeySpec == HotkeyInit /\ [][HotkeyNext]_vars

----------------------------------------------------------------------------
(* _updateItemAngles called on its own, on one list of siblings *)

\* the largest number of siblings in a list
MaxSiblings == 3

\* three quarters of a degree
SubDegree == Quotient(Deg(3), 4)

\* the angle property of a sibling: none, or an angle in [0, 360); all are
\* multiples of 0.75, which keeps the gap of every wedge of these lists exact
LayoutAngles == {NoAngle, 0, SubDegree, Deg(90), Deg(180), Deg(270)}

\* the parent angle passed: none, or an angle in [0, 360)
ParentAngles == {NoAngle, 0, Deg(90), Deg(180), Deg(270)}

\* the lists of n siblings
RECURSIVE SiblingsOf(_)
SiblingsOf(n) ==
  IF n = 0 THEN {<<>>}
  ELSE {<<Leaf(a, NoID)>> \o l : a \in LayoutAngles, l \in SiblingsOf(n - 1)}

SiblingLists == UNION {SiblingsOf(n) : n \in 1..MaxSiblings}

\* the daemon and its menu as they are constructed, with no menu configured
Constructed ==
  /\ itemShape = "both"
  /\ menuClass = "server"
  /\ menuID = NullID
  /\ structure = EmptyObject
  /\ editMode = FALSE
  /\ nextID = 0
  /\ currentMenuConfig = Null
  /\ menuConfigs = <<>>
  /\ bound = {}
  /\ last = Handled("init", NoSignal)
  /\ origin = "none"
  /\ openedInEdit = FALSE
  /\ lastGranted = 0 - 1

LayoutInit ==
  /\ Constructed
  /\ given \in SiblingLists
  /\ givenParent \in ParentAngles
  /\ work = [ok |-> TRUE, items |-> given]
  /\ before = given
  /\ stage = "given"
  /\ resolved = [threw |-> FALSE, indices |-> <<>>, target |-> <<>>]

\* this._updateItemAngles(items, parentAngle)
AssignAngles ==
  /\ stage = "given"
  /\ work' = UpdateItemAngles(given, givenParent)
  /\ before' = work.items
  /\ stage' = "laid"
  /\ UNCHANGED <<svars, itemShape, menuClass, given, givenParent, resolved>>

LayoutNext == AssignAngles

LayoutSpec == LayoutInit /\ [][LayoutNext]_vars

----------------------------------------------------------------------------
(* _onMenuConfigsChanged on configurations that differ in their shortcuts:
   the constructor's call, then one call per change of the setting.  The
   calls made on the binding table are recorded in work, the bound set
   before the call in before, the shortcuts whose bind fails in given. *)

\* the longest configuration
MaxEntries == 2

ShortcutNames == {"A", "B", "C"}

RECURSIVE EntriesOf(_)
EntriesOf(n) ==
  IF n = 0 THEN {<<>>}
  ELSE {Append(c, MenuConfig("a", d, <<>>)) :
          c \in EntriesOf(n - 1), d \in ShortcutNames \cup {""}}

ShortcutConfigurations == UNION {EntriesOf(n) : n \in 0..MaxEntries}

ReconcileInit ==
  /\ itemShape = "both"
  /\ menuClass = "server"
  /\ menuID = NullID
  /\ structure = EmptyObject
  /\ editMode = FALSE
  /\ nextID = 0
  /\ currentMenuConfig = Null
  /\ menuConfigs \in ShortcutConfigurations
  /\ last = Handled("init", NoSignal)
  /\ origin = "none"
  /\ openedInEdit = FALSE
  /\ lastGranted = 0 - 1
  /\ before = {}
  /\ given \in SUBSET ToBind({}, menuConfigs)
  /\ work = Reconcile({}, menuConfigs, given)
  /\ bound = work.bound
  /\ stage = "reconciled"
  /\ givenParent = NoAngle
  /\ resolved = [threw |-> FALSE, indices |-> <<>>, target |-> <<>>]

OnShortcutsChanged ==
  \E configs \in ShortcutConfigurations:
    \E failing \in SUBSET ToBind(bound, configs):
      /\ ConfigsChanged(configs, failing)
      /\ before' = bound
      /\ given' = failing
      /\ work' = Reconcile(bound, configs, failing)
      /\ stage' = "reconciled"
      /\ UNCHANGED <<givenParent, resolved, itemShape, menuClass>>

ReconcileNext == OnShortcutsChanged

ReconcileSpec == ReconcileInit /\ [][ReconcileNext]_vars

----------------------------------------------------------------------------
(* _updateItemIDs called on its own, and the path walk of _onSelect *)

\* the largest number of items in a tree
MaxTreeNodes == 3

\* the id property of an item: none, or an id supplied by the caller
SuppliedIDs == {NoID, <<"x">>, <<"/", "1">>}

\* the item lists with exactly n items
RECURSIVE IDForests(_)
RECURSIVE IDTrees(_)
IDTrees(n) ==
  IF n = 1 THEN {Leaf(NoAngle, i) : i \in SuppliedIDs}
  ELSE {Item(NoAngle, i, c) : i \in SuppliedIDs, c \in IDForests(n - 1)}
IDForests(n) ==
  IF n = 0 THEN {<<>>}
  ELSE UNION {{<<t>> \o f : t \in IDTrees(k), f \in IDForests(n - k)} : k \in 1..n}

\* the positions of the items of a list: the 0-based indices leading to them
RECURSIVE Positions(_)
Positions(items) ==
  UNION {{<<k - 1>>}
           \cup (IF items[k].hasItems
                 THEN {<<k - 1>> \o q : q \in Positions(items[k].items)}
                 ELSE {})
         : k \in 1..Len(items)}

\* the item of a list that the 0-based indices lead to
RECURSIVE ItemAt(_, _)
ItemAt(items, indices) ==
  IF Len(indices) = 1 THEN items[indices[1] + 1]
  ELSE ItemAt(items[indices[1] + 1].items, Tail(indices))

\* the items of a list as createItem makes them: without ids, each with its
\* list, which may be empty, under the names of the shape
RECURSIVE AsCreated(_, _)
AsCreated(shape, items) ==
  Array([k \in 1..Len(items) |->
     [CreateItem(shape, items[k].angle)
        EXCEPT !.items = @ \o AsCreated(shape, items[k].items)]])

\* the item lists of a tree: those of a request text, or those that
\* _transformConfig builds of created nodes
IDGiven(created) ==
  LET forests == UNION {IDForests(n) : n \in 1..MaxTreeNodes}
  IN IF created THEN {AsCreated(itemShape, f) : f \in forests} ELSE forests

\* the tree _onSelect walks from: the root holds the list as `items`, and
\* as `children` too when createItem has made it so
IDRoot(tree) == [Root(tree.items) EXCEPT !.hasChildren = tree.hasChildren]

IDInit ==
  /\ Constructed
  /\ \E created \in BOOLEAN:
       /\ given \in IDGiven(created)
       /\ work = [ok |-> TRUE, items |-> given,
                  hasChildren |-> created
                                    /\ CreateItem(itemShape, NoAngle).hasChildren]
  /\ givenParent = NoAngle
  /\ before = given
  /\ stage = "given"
  /\ resolved = [threw |-> FALSE, indices |-> <<>>, target |-> <<>>]

\* this._updateItemIDs(this._structure.items)
AssignIDs ==
  /\ stage = "given"
  /\ work' = [work EXCEPT !.items = UpdateItemIDs(work.items, NoID)]
  /\ before' = work.items
  /\ stage' = "addressed"
  /\ UNCHANGED <<svars, itemShape, menuClass, given, givenParent, resolved>>

\* _updateItemIDs a second time on the same items
AssignIDsAgain ==
  /\ stage = "addressed"
  /\ work' = [work EXCEPT !.items = UpdateItemIDs(work.items, NoID)]
  /\ before' = work.items
  /\ stage' = "readdressed"
  /\ UNCHANGED <<svars, itemShape, menuClass, given, givenParent, resolved>>

\* the path walk of _onSelect with the id of the item at a position
Resolve ==
  /\ stage = "addressed"
  /\ \E target \in Positions(work.items):
       \E walk \in {FollowPath(IDRoot(work),
                               Split(ItemAt(work.items, target).id), 2)}:
         resolved' = [threw |-> walk.threw, indices |-> walk.indices,
                      target |-> target]
  /\ stage' = "resolved"
  /\ UNCHANGED <<svars, itemShape, menuClass, given, givenParent, work, before>>

IDNext ==
  \/ AssignIDs
  \/ AssignIDsAgain
  \/ Resolve

IDSpec == IDInit /\ [][IDNext]_vars

----------------------------------------------------------------------------
(* _updateItemAngles step by step: one step per call of the method, per
   wedge and per iteration of the while loop.  work holds the tree, the
   calls the forEach loops have still to make (the innermost first), the
   call that is running and the lists visited so far. *)

\* the largest number of items in a tree
MaxLoopNodes == 3

\* the angle property of an item: none, or a fixed angle
LoopAngles == {NoAngle, Deg(90), Deg(270)}

\* the trees with exactly n items, and the item lists with exactly n items;
\* an item may carry an empty item list
RECURSIVE LoopForests(_)
RECURSIVE LoopTrees(_)
LoopTrees(n) ==
  IF n = 1 THEN {Leaf(a, NoID) : a \in LoopAngles}
                  \cup {Item(a, NoID, <<>>) : a \in LoopAngles}
  ELSE {Item(a, NoID, c) : a \in LoopAngles, c \in LoopForests(n - 1)}
LoopForests(n) ==
  IF n = 0 THEN {<<>>}
  ELSE UNION {{<<t>> \o f : t \in LoopTrees(k), f \in LoopForests(n - k)}
              : k \in 1..n}

\* the item list that the 1-based child indices of path lead to
RECURSIVE ListAt(_, _)
ListAt(items, path) ==
  IF Len(path) = 0 THEN items
  ELSE ListAt(items[path[1]].items, Tail(path))

\* items[index].angle = angle, in the list at path
RECURSIVE SetAngleAt(_, _, _, _)
SetAngleAt(items, path, k, angle) ==
  IF Len(path) = 0 THEN [items EXCEPT ![k].angle = angle]
  ELSE [items EXCEPT ![path[1]].items = SetAngleAt(@, Tail(path), k, angle)]

\* a forEach that calls the method twice for every child list
ChildCallsTwice(items, path) ==
  LET with == SelectSeq([k \in 1..Len(items) |-> k], LAMBDA k: items[k].hasItems)
  IN [j \in 1..(2 * Len(with)) |->
        [path |-> Append(path, with[(j + 1) \div 2]),
         parentAngle |-> (items[with[(j + 1) \div 2]].angle + Deg(180)) % Deg(360)]]

\* the calls of the forEach over the items of the list at path: one for
\* every item with an item list, with the opposite of the item's angle
ChildCalls(items, path) ==
  LET with == SelectSeq([k \in 1..Len(items) |-> k], LAMBDA k: items[k].hasItems)
  IN [j \in 1..Len(with) |->
        [path |-> Append(path, with[j]),
         parentAngle |-> (items[with[j]].angle + Deg(180)) % Deg(360)]]

\* index = (index + 1) % items.length
NextIndex(index, n) == (index + 1) % n

NoWedge ==
  [beginIndex |-> 0, beginAngle |-> 0, endIndex |-> 0, endAngle |-> 0,
   itemCount |-> 0, parentAngle |-> NoAngle, parentInWedge |-> FALSE,
   itemGap |-> 0]

\* no call is running
NoFrame ==
  [active |-> FALSE, path |-> <<>>, parentAngle |-> NoAngle, fixed |-> <<>>,
   i |-> 0, phase |-> "none", w |-> NoWedge, index |-> 0, count |-> 0,
   gap |-> FALSE, iterations |-> 0]

LoopInit ==
  /\ Constructed
  /\ given \in UNION {LoopForests(n) : n \in 1..MaxLoopNodes}
  /\ givenParent = NoAngle
  /\ work = [ok |-> TRUE, items |-> given,
             stack |-> <<[path |-> <<>>, parentAngle |-> givenParent]>>,
             call |-> NoFrame, visited |-> <<>>]
  /\ before = given
  /\ stage = "running"
  /\ resolved = [threw |-> FALSE, indices |-> <<>>, target |-> <<>>]

\* the method is entered for the call on top: the checks of the fixed angles
\* and of the parent link, and the angle of the first item
EnterList ==
  /\ stage = "running"
  /\ ~work.call.active
  /\ Len(work.stack) > 0
  /\ LET c == Head(work.stack)
         items == ListAt(work.items, c.path)
         fixed == FixedAngles(items)
         ok == \/ Len(items) = 0
               \/ FixedAnglesValid(fixed) /\ ~ParentCollides(fixed, c.parentAngle)
         withFirst == IF Len(fixed) = 0
                      THEN SetAngleAt(work.items, c.path, 1, FirstAngle(c.parentAngle))
                      ELSE work.items
     IN work' = [ok |-> IF Len(c.path) = 0 THEN ok ELSE work.ok,
                 items |-> IF ok /\ Len(items) > 0 THEN withFirst ELSE work.items,
                 stack |-> Tail(work.stack),
                 call |-> IF ok /\ Len(items) > 0
                          THEN [NoFrame EXCEPT !.active = TRUE, !.path = c.path,
                                               !.parentAngle = c.parentAngle,
                                               !.fixed = LevelFixed(items, c.parentAngle),
                                               !.i = 1, !.phase = "wedge"]
                          ELSE NoFrame,
                 visited |-> Append(work.visited, [path |-> c.path, ok |-> ok])]
  /\ UNCHANGED <<svars, itemShape, menuClass, given, givenParent, before, stage, resolved>>

\* the head of the for loop over the wedges: the next wedge, or after the
\* last one the forEach over the children
BeginWedge ==
  /\ stage = "running"
  /\ work.call.active
  /\ work.call.phase = "wedge"
  /\ LET f == work.call
         items == ListAt(work.items, f.path)
     IN IF f.i > Len(f.fixed)
        THEN work' = [work EXCEPT !.call = NoFrame,
                                  !.stack = ChildCalls(items, f.path) \o @]
        ELSE \E w \in {Wedge(items, f.fixed, f.i, f.parentAngle)}:
               work' = [work EXCEPT
                          !.call = [f EXCEPT !.phase = "loop", !.w = w,
                                             !.parentAngle = w.parentAngle,
                                             !.index = NextIndex(w.beginIndex, Len(items)),
                                             !.count = 1,
                                             !.gap = w.parentInWedge,
                                             !.iterations = 0]]
  /\ UNCHANGED <<svars, itemShape, menuClass, given, givenParent, before, stage, resolved>>

\* the test of the while loop and one run of its body
LoopStep ==
  /\ stage = "running"
  /\ work.call.active
  /\ work.call.phase = "loop"
  /\ LET f == work.call
         items == ListAt(work.items, f.path)
         itemAngle == f.w.beginAngle + f.w.itemGap * f.count
         insert == f.gap /\ 2 * itemAngle + f.w.itemGap - 2 * f.w.parentAngle > 0
         c == IF insert THEN f.count + 1 ELSE f.count
         a == f.w.beginAngle + f.w.itemGap * c
     IN IF f.index = f.w.endIndex
        THEN work' = [work EXCEPT !.call = [f EXCEPT !.phase = "wedge",
                                                     !.i = f.i + 1]]
        ELSE work' = [work EXCEPT
                        !.items = SetAngleAt(@, f.path, f.index + 1, a % Deg(360)),
                        !.call = [f EXCEPT !.index = NextIndex(f.index, Len(items)),
                                           !.count = c + 1,
                                           !.gap = f.gap /\ ~insert,
                                           !.iterations = f.iterations + 1]]
  /\ UNCHANGED <<svars, itemShape, menuClass, given, givenParent, before, stage, resolved>>

\* the outermost call returns
Return ==
  /\ stage = "running"
  /\ ~work.call.active
  /\ Len(work.stack) = 0
  /\ stage' = "laid"
  /\ UNCHANGED <<svars, itemShape, menuClass, given, givenParent, work, before, resolved>>

LoopNext ==
  \/ EnterList
  \/ BeginWedge
  \/ LoopStep
  \/ Return

\* the method runs on: nothing suspends it
LoopSpec == LoopInit /\ [][LoopNext]_vars /\ WF_vars(LoopNext)

----------------------------------------------------------------------------
(* The claims about the session and the dispatcher *)

\* the session part of the state
Session == <<menuID, structure, editMode>>

\* the siblings of the list passed that carry an angle property, the angle 0
\* included: the fixed angles the claims speak of.  (The list fixedAngles of
\* _updateItemAngles is LevelFixed: `if (item.angle)` leaves the angle 0 out.)
Fixed(items) == {k \in 1..Len(items) : items[k].angle # NoAngle}

\* C1: whenever show is called while a session is Active, whatever its id,
\* the call returns AlreadyActive and the id, the stored tree and the
\* edit-mode flag of the session stay as they are.
C1_OpenWhileActiveRejected ==
  [][(menuID # NullID /\ last'.op \in RequestOps /\ last'.showCalled)
       => (last'.ret = eAlreadyActive /\ UNCHANGED Session)]_vars

\* C2: a request succeeds only when no session is open, so between two
\* successful requests the first session has been closed.
C2_OneSessionAtATime ==
  [][(last'.op \in RequestOps /\ last'.ret >= 0) => menuID = NullID]_vars

\* C3: the value a successful request returns is non-negative, greater than
\* every value returned before, and the id of the session Active after it.
C3_IdsIncrease ==
  [][(last'.op \in RequestOps /\ last'.ret >= 0)
       => (last'.ret > lastGranted /\ menuID' = last'.ret)]_vars

\* a third request succeeded, whatever became of the two before it
C3_Witness ==
  /\ last.op \in RequestOps
  /\ last.ret = 2
  /\ menuID = 2
  /\ lastGranted = 2

C5_ErrorsLeaveSession ==
  [][(last'.op \in RequestOps /\ last'.ret < 0) => UNCHANGED Session]_vars

\* C6: OnSelect and OnCancel are emitted only when the session being closed
\* was opened by a custom request; closing a session opened from a configured
\* menu emits no signal, and a selection in it activates the item that
\* carries the selected path in the tree of that menu.
C6_SignalsOnlyForCustom ==
  [][last'.op \in CloseOps =>
       /\ last'.signal # NoSignal => origin = "custom"
       /\ origin = "configured" =>
            /\ last'.signal = NoSignal
            /\ last'.op # "cancel" =>
                 /\ last'.op = "select"
                 /\ last'.activation.activated
                 /\ last'.activation.config = structure
                 /\ ItemAt(structure.items, last'.activation.indices).id
                      = last'.path]_vars

\* an item below the top level of a configured menu has been activated
C6_Witness ==
  /\ last.op = "select"
  /\ last.activation.activated
  /\ Len(last.activation.indices) = 2
  /\ last.signal = NoSignal

\* C7: a named request whose name matches no configured menu returns
\* NoSuchMenu, does not call show, and leaves the session and the current
\* configured menu as they were.
C7_NoSuchMenu ==
  [][(last'.op = "configured" /\ last'.req = "nomatch")
       => /\ last'.ret = eNoSuchMenu
          /\ ~last'.showCalled
          /\ UNCHANGED <<Session, currentMenuConfig, nextID>>]_vars

\* an unknown name has been rejected on a configuration that has menus
C7_Witness ==
  /\ last.op = "configured"
  /\ last.req = "nomatch"
  /\ last.ret = eNoSuchMenu
  /\ Len(menuConfigs) > 0

\* C8: a custom request whose text is no JSON returns InvalidJSON, does not
\* call show, and leaves the session as it was.
C8_InvalidJSON ==
  [][(last'.op = "custom" /\ last'.req = "malformed")
       => /\ last'.ret = eInvalidJSON
          /\ ~last'.showCalled
          /\ UNCHANGED <<Session, currentMenuConfig, nextID>>]_vars

\* a malformed text has been rejected while a session is Active
C8_Witness ==
  /\ last.op = "custom"
  /\ last.req = "malformed"
  /\ last.ret = eInvalidJSON
  /\ menuID # NullID

\* C9: show called while Idle with a tree whose top-level item list is
\* absent or empty returns PropertyMissing and the session stays Idle.
C9_PropertyMissing ==
  [][(menuID = NullID /\ last'.op \in RequestOps /\ last'.req = "noitems")
       => (last'.ret = ePropertyMissing /\ menuID' = NullID)]_vars

\* a tree without items has been rejected while Idle
C9_Witness ==
  /\ last.op \in RequestOps
  /\ last.req = "noitems"
  /\ last.ret = ePropertyMissing
  /\ menuID = NullID

\* C10: show called while Idle with a tree whose angles cannot be satisfied
\* at some level, the top-level list or a nested list, returns InvalidAngles
\* and the session does not become Active.
C10_InvalidAngles ==
  [][(menuID = NullID /\ last'.op \in RequestOps
        /\ last'.req \in {"conflict", "nestedconflict"})
       => (last'.ret = eInvalidAngles /\ menuID' = NullID)]_vars

\* C11: every request returns a session id or one of the error codes; no
\* exception raised while parsing, while transforming a configured menu or
\* inside show leaves the handler of the request.
C11_NothingEscapes ==
  [][/\ last'.op # "request-threw"
     /\ last'.op \in RequestOps => (last'.ret >= 0 \/ last'.ret \in ErrorCodes)]_vars

\* C12: a list of n >= 1 siblings without any angle, laid out without parent
\* angle, succeeds and the sibling at index k gets (90 + k * 360 / n) mod 360.
C12_EvenSpacing ==
  (stage = "laid" /\ Fixed(given) = {} /\ givenParent = NoAngle)
    => /\ work.ok
       /\ \A k \in 1..Len(given):
            work.items[k].angle
              = (Deg(90) + (k - 1) * Quotient(Deg(360), Len(given))) % Deg(360)

\* three siblings have been laid out at 90, 210 and 330 degrees
C12_Witness ==
  /\ stage = "laid"
  /\ Len(given) = 3
  /\ Fixed(given) = {}
  /\ givenParent = NoAngle
  /\ work.ok
  /\ [k \in 1..3 |-> work.items[k].angle] = <<Deg(90), Deg(210), Deg(330)>>

\* C13: a list whose angle properties, in list order, are not strictly
\* increasing is rejected, whatever the angles in [0, 360) are.
C13_NotIncreasingRejected ==
  (stage = "laid"
     /\ \E i, j \in Fixed(given): i < j /\ given[j].angle <= given[i].angle)
    => ~work.ok

\* C14: a list with an angle property less than one degree away from the
\* parent angle passed is rejected, for every parent angle in [0, 360).
C14_ParentBandRejected ==
  (stage = "laid" /\ givenParent # NoAngle
     /\ \E k \in Fixed(given): Abs(given[k].angle - givenParent) < Deg(1))
    => ~work.ok

\* C15: after a successful layout no two siblings of the list have the same
\* angle.
C15_SiblingsDistinct ==
  (stage = "laid" /\ work.ok)
    => \A i, j \in 1..Len(given):
         i # j => work.items[i].angle # work.items[j].angle

\* every item of the list, at every depth, has an angle in [0, 360)
RECURSIVE AllResolved(_)
AllResolved(items) ==
  \A k \in 1..Len(items):
    /\ items[k].angle # NoAngle
    /\ items[k].angle >= 0
    /\ items[k].angle < Deg(360)
    /\ items[k].hasItems => AllResolved(items[k].items)

\* C16: after a request has succeeded every item of the stored tree, at every
\* depth, carries an angle, and the angle lies in [0, 360).
C16_AllAnglesResolved ==
  [][(last'.op \in RequestOps /\ last'.ret >= 0)
       => AllResolved(structure'.items)]_vars

\* C17: after a successful layout with a parent angle no sibling has the
\* parent angle.
C17_ParentAngleFree ==
  (stage = "laid" /\ work.ok /\ givenParent # NoAngle)
    => \A k \in 1..Len(given): work.items[k].angle # givenParent

\* no item of the list, at any depth, carries an id supplied by the caller
NoSuppliedIDs(items) ==
  \A q \in Positions(items): ItemAt(items, q).id = NoID

\* C18 as stated: after _updateItemIDs the ids of all items of the tree are
\* pairwise distinct, also when items carry ids supplied by the caller.
C18_IdsDistinctAlways ==
  stage = "addressed"
    => Cardinality(ItemIDs(work.items)) = Cardinality(Positions(work.items))

\* C18: after _updateItemIDs on a tree in which no item carries an id
\* supplied by the caller, the ids of all items are pairwise distinct.
C18_IdsDistinct ==
  (stage = "addressed" /\ NoSuppliedIDs(given))
    => Cardinality(ItemIDs(work.items)) = Cardinality(Positions(work.items))

\* a tree of three items without supplied ids, one of them nested, has ids
C18_Witness ==
  /\ stage = "addressed"
  /\ NoSuppliedIDs(given)
  /\ Cardinality(Positions(work.items)) = 3
  /\ \E k \in 1..Len(given): given[k].hasItems

\* C19 as stated: for every item of a tree that _updateItemIDs has run on,
\* splitting its id at '/' and following the segments as child indices from
\* the root reaches that item.
C19_RoundTripAlways ==
  stage = "resolved"
    => (~resolved.threw /\ resolved.indices = resolved.target)

\* every list of the tree, the root's included, can be read as `items` and
\* as `children`
RECURSIVE BothNames(_)
BothNames(items) ==
  \A k \in 1..Len(items):
    items[k].hasItems /\ items[k].hasChildren /\ BothNames(items[k].items)

\* the round trip of C19 where it does hold: in a tree whose lists answer to
\* both names and whose items carry no id supplied by the caller, following
\* the id of an item reaches that item.
RoundTripBothNames ==
  (stage = "resolved" /\ work.hasChildren /\ BothNames(given)
     /\ NoSuppliedIDs(given))
    => (~resolved.threw /\ resolved.indices = resolved.target)

\* in a tree of a request text, whose lists are `items`, the walk along
\* `children` reaches no item: it throws at its first step, or, for a
\* supplied id without '/', makes no step
NoRoundTripOnItems ==
  (stage = "resolved" /\ ~work.hasChildren)
    => (resolved.threw \/ resolved.indices = <<>>)

\* the id of a nested item, not the first of its list, has been followed
RoundTripReached ==
  /\ stage = "resolved"
  /\ work.hasChildren
  /\ Len(resolved.target) = 2
  /\ resolved.target[2] = 1
  /\ resolved.indices = resolved.target

\* C20: a second _updateItemIDs on the same tree leaves every id as the
\* first one left it.
C20_AssignIdempotent ==
  stage = "readdressed" => work.items = before

\* a tree with a nested item and a supplied id has been addressed twice
C20_Witness ==
  /\ stage = "readdressed"
  /\ ~NoSuppliedIDs(given)
  /\ \E k \in 1..Len(given): given[k].hasItems
  /\ work.items = before

\* the distinct non-empty shortcut strings of a configuration
Desired(configs) == {configs[i].data : i \in 1..Len(configs)} \ {""}

\* the number of calls made with shortcut s
Calls(calls, s) == Cardinality({k \in 1..Len(calls) : calls[k] = s})

\* C21: a reconciliation started with the bound set B for the desired set D
\* calls unbind exactly once for each shortcut of B \ D, bind exactly once
\* for each shortcut of D \ B, and neither for any other shortcut
C21_DiffOnly ==
  stage = "reconciled" =>
    \A s \in ShortcutNames \cup {""}:
      /\ Calls(work.unbind, s)
           = IF s \in before \ Desired(menuConfigs) THEN 1 ELSE 0
      /\ Calls(work.bind, s)
           = IF s \in Desired(menuConfigs) \ before THEN 1 ELSE 0

C21_Witness ==
  /\ stage = "reconciled"
  /\ before = {"A", "B"}
  /\ Desired(menuConfigs) = {"B", "C"}
  /\ work.unbind = <<"A">>
  /\ work.bind = <<"C">>

\* C22: after a configuration change in which every bind succeeds, whatever
\* was bound before, the bound set is the set of distinct non-empty shortcut
\* strings of the current configuration
C22_BoundIsDesired ==
  stage = "reconciled" /\ given = {} => bound = Desired(menuConfigs)

C22_Witness ==
  /\ stage = "reconciled"
  /\ given = {}
  /\ before = {"A", "B"}
  /\ Len(menuConfigs) = 2
  /\ menuConfigs[1].data = "C"
  /\ menuConfigs[2].data = "C"
  /\ bound = {"C"}

\* C23: the shortcuts whose bind fails are reported, every other shortcut
\* of the to-bind list is bound, and the shortcuts that were bound and are
\* still required stay bound
C23_FailureDoesNotBlock ==
  stage = "reconciled" =>
    /\ work.reported = given
    /\ \A k \in 1..Len(work.bind):
         work.bind[k] \notin given => work.bind[k] \in bound
    /\ before \cap Desired(menuConfigs) \subseteq bound

C23_Witness ==
  /\ stage = "reconciled"
  /\ work.bind = <<"A", "B">>
  /\ given = {"A"}
  /\ work.reported = {"A"}
  /\ bound = {"B"}

\* C24: a PreviewMenu that succeeds leaves the current configured menu as
\* it was, and the slot is filled only by a ShowMenu that succeeds
C24_PreviewDoesNotCommit ==
  [][/\ last'.op = "configured" /\ last'.ret >= 0 /\ editMode'
          => currentMenuConfig' = currentMenuConfig
     /\ currentMenuConfig' # Null /\ currentMenuConfig' # currentMenuConfig
          => last'.op = "configured" /\ last'.ret >= 0 /\ ~editMode']_vars

\* C24 as amended: every named request that succeeds, ShowMenu or
\* PreviewMenu, stores the tree it opened as the current configured menu,
\* and nothing else fills the slot
C24_NamedSuccessCommits ==
  [][/\ last'.op = "configured" /\ last'.ret >= 0
          => currentMenuConfig' # Null /\ currentMenuConfig' = structure'
     /\ currentMenuConfig' # Null /\ currentMenuConfig' # currentMenuConfig
          => last'.op = "configured" /\ last'.ret >= 0]_vars

C24_Witness ==
  /\ last.op = "configured"
  /\ last.ret >= 0
  /\ editMode
  /\ menuID = last.ret
  /\ currentMenuConfig # Null
  /\ currentMenuConfig = structure

\* C25: onCancel is called only by a handler that closes an Active session,
\* with the id of that session, and the session is Idle afterwards (so at
\* most once per session); an event that arrives while Idle calls nothing
C25_CancelOnlyClosesActive ==
  [][last'.op = "cancel"
       => /\ menuID # NullID
          /\ menuID' = NullID
          /\ last'.signal # NoSignal => last'.signal = OnCancelSignal(menuID)]_vars

\* C26: a request for a configured menu returns a positive number, the id
\* of the session it opened, or a negative number and then it opened none
C26_PositiveOrNegative ==
  [][last'.op = "configured"
       => \/ last'.ret > 0 /\ menuID' = last'.ret
          \/ last'.ret < 0 /\ menuID' = menuID]_vars

\* C27: a list without any angle property gets 270 degrees on its first
\* item when a parent angle below 180 degrees is passed, zero included, and
\* 90 degrees otherwise
C27_FirstAngleBySide ==
  (stage = "laid" /\ \A k \in 1..Len(given): given[k].angle = NoAngle)
    => /\ work.ok
       /\ work.items[1].angle
            = IF givenParent # NoAngle /\ givenParent < Deg(180)
              THEN Deg(270) ELSE Deg(90)

\* the clockwise way from angle a to angle b, both in [0, 360)
Clockwise(a, b) == (b - a + Deg(360)) % Deg(360)

\* the items that bound the wedges of a list: those with an angle property,
\* or the first item when there is none
Anchors(items) == IF Fixed(items) = {} THEN {1} ELSE Fixed(items)

\* the anchor nearest before item k in list order, circularly, and the one
\* nearest after it
AnchorBefore(items, k) ==
  CHOOSE f \in Anchors(items):
    \A g \in Anchors(items):
      (k - f + Len(items)) % Len(items) <= (k - g + Len(items)) % Len(items)

AnchorAfter(items, k) ==
  CHOOSE f \in Anchors(items):
    \A g \in Anchors(items):
      (f - k + Len(items)) % Len(items) <= (g - k + Len(items)) % Len(items)

\* C28: after a successful layout every item without angle property lies
\* strictly inside the wedge between the nearest anchors before and after
\* it, and the angles of the list increase clockwise with the index
C28_InsideItsWedge ==
  (stage = "laid" /\ work.ok)
    => /\ \A k \in (1..Len(given)) \ Anchors(given):
            LET b == work.items[AnchorBefore(given, k)].angle
                e == work.items[AnchorAfter(given, k)].angle
                span == IF b = e THEN Deg(360) ELSE Clockwise(b, e)
            IN /\ 0 < Clockwise(b, work.items[k].angle)
               /\ Clockwise(b, work.items[k].angle) < span
       /\ \A j, k \in 1..Len(given):
            j < k => Clockwise(work.items[1].angle, work.items[j].angle)
                       < Clockwise(work.items[1].angle, work.items[k].angle)

\* whether the span of wedge i of fixed, clockwise from its begin angle to
\* its end angle, contains the angle p strictly
SpanContains(fixed, i, p) ==
  LET b == fixed[i].angle
      e == fixed[(i % Len(fixed)) + 1].angle
  IN /\ 0 < Clockwise(b, p)
     /\ Len(fixed) > 1 => Clockwise(b, p) < Clockwise(b, e)

\* C29: with a parent angle, a successful layout reserves the slot of the
\* link to the parent in exactly one wedge, the wedge whose span contains
\* the parent angle
C29_SlotInOneWedge ==
  (stage = "laid" /\ work.ok /\ givenParent # NoAngle)
    => LET fixed == LevelFixed(given, givenParent)
           wedges == WedgesFrom(given, fixed, 1, givenParent)
       IN /\ Cardinality({i \in 1..Len(wedges) : wedges[i].parentInWedge}) = 1
          /\ \A i \in 1..Len(wedges):
               wedges[i].parentInWedge => SpanContains(fixed, i, givenParent)

\* C30: after a successful layout every item that came with an angle
\* property in [0, 360) still has that angle
C30_FixedUntouched ==
  (stage = "laid" /\ work.ok)
    => \A k \in Fixed(given): work.items[k].angle = given[k].angle

\* C31: in every state the current configured menu is set exactly when a
\* session is Active and was opened by a request for a configured menu; it
\* is null while Idle and while the Active session is ad hoc
C31_SlotFollowsSession ==
  (currentMenuConfig # Null) <=> (menuID # NullID /\ origin = "configured")

\* C32: the code a request reports follows a fixed precedence: NoSuchMenu
\* or InvalidJSON whatever the session, then AlreadyActive while a session
\* is Active, then PropertyMissing, then InvalidAngles, then UnknownError
\* for a failed grab
C32_ErrorPrecedence ==
  [][last'.op \in RequestOps =>
       IF last'.req = "nomatch" THEN last'.ret = eNoSuchMenu
       ELSE IF last'.req = "malformed" THEN last'.ret = eInvalidJSON
       ELSE IF menuID # NullID THEN last'.ret = eAlreadyActive
       ELSE IF last'.req = "noitems" THEN last'.ret = ePropertyMissing
       ELSE IF last'.req \in {"conflict", "nestedconflict"}
       THEN last'.ret = eInvalidAngles
       ELSE IF last'.req = "nograb" THEN last'.ret = eUnknownError
       ELSE TRUE]_vars

\* the path of a position: '/i1/.../ik'
RECURSIVE PathOf(_)
PathOf(indices) ==
  IF Len(indices) = 0 THEN <<>>
  ELSE <<"/", Digits[indices[1] + 1]>> \o PathOf(Tail(indices))

\* the position without its last index
ParentOf(indices) == SubSeq(indices, 1, Len(indices) - 1)

\* the index a position ends with, as text
LastIndex(indices) == <<Digits[indices[Len(indices)] + 1]>>

\* C33: after _updateItemIDs an item that came with an id still has it; an
\* item that came without has '/' and its index when it is at the top level,
\* else the id of its parent, '/' and its index; and so an item none of
\* whose ancestors came with an id has the path of its position
C33_IdFromParent ==
  stage = "addressed" =>
    \A q \in Positions(given):
      /\ ItemAt(given, q).id # NoID
           => ItemAt(work.items, q).id = ItemAt(given, q).id
      /\ ItemAt(given, q).id = NoID /\ Len(q) = 1
           => ItemAt(work.items, q).id = <<"/">> \o LastIndex(q)
      /\ ItemAt(given, q).id = NoID /\ Len(q) > 1
           => ItemAt(work.items, q).id
                = ItemAt(work.items, ParentOf(q)).id \o <<"/">> \o LastIndex(q)
      /\ (\A n \in 1..Len(q): ItemAt(given, SubSeq(q, 1, n)).id = NoID)
           => ItemAt(work.items, q).id = PathOf(q)

\* an item that came with the id x has kept it and its child, which came
\* without, has the id x/0
C33_Witness ==
  /\ stage = "addressed"
  /\ given[1].id = <<"x">>
  /\ Len(given[1].items) > 0
  /\ given[1].items[1].id = NoID
  /\ work.items[1].id = <<"x">>
  /\ work.items[1].items[1].id = <<"x", "/", "0">>

\* C34: a change of the configuration leaves the session and the tree
\* stored for its selection as they are, and a selection that follows the
\* change in a session opened from a configured menu activates the item in
\* the tree that was stored when the session was opened
C34_ChangeKeepsSnapshot ==
  [][/\ last'.op = "config"
          => UNCHANGED <<Session, currentMenuConfig, origin>>
     /\ (last.op = "config" /\ origin = "configured" /\ menuID # NullID
           /\ last'.op \in {"select", "select-threw"})
          => /\ last'.op = "select"
             /\ last'.activation.activated
             /\ last'.activation.config = structure
             /\ ItemAt(structure.items, last'.activation.indices).id
                  = last'.path]_vars

\* the configuration has been emptied while a session opened from one of
\* its menus is Active
C34_Witness ==
  /\ last.op = "config"
  /\ origin = "configured"
  /\ menuID # NullID
  /\ menuConfigs = <<>>
  /\ currentMenuConfig # Null
  /\ currentMenuConfig = structure

\* C35: one press of a bound hotkey opens at most one session, and it
\* notifies a failure only if it opened none
C35_OnePressOneSession ==
  [][last'.op = "hotkey"
       => /\ Len(work'.opened) <= 1
          /\ work'.notified # <<>> => work'.opened = <<>>]_vars

\* C36: a configuration change whose distinct non-empty shortcuts are the
\* shortcuts bound already calls neither bind nor unbind
C36_NothingToDo ==
  (stage = "reconciled" /\ Desired(menuConfigs) = before)
    => work.unbind = <<>> /\ work.bind = <<>>

\* a change to a configuration with the shortcuts A and B has been handled
\* while A and B were bound
C36_Witness ==
  /\ stage = "reconciled"
  /\ before = {"A", "B"}
  /\ Desired(menuConfigs) = {"A", "B"}
  /\ work.unbind = <<>>
  /\ work.bind = <<>>
  /\ bound = {"A", "B"}

\* C37: while a session opened in preview mode is Active a right-button
\* release leaves it Active and notifies nobody, and edit-cancel and
\* edit-save close it and notify onCancel; while a session opened without
\* preview mode is Active a right-button release closes it and notifies
\* onCancel
C37_EditModeButtons ==
  [][/\ (BackgroundShown /\ openedInEdit /\ ButtonReleasedWith(CancelButton))
          => menuID' = menuID /\ last'.op = "ignored"
     /\ (BackgroundShown /\ openedInEdit /\ (EditCancel \/ EditSave))
          => menuID' = NullID /\ last'.op = "cancel"
     /\ (BackgroundShown /\ ~openedInEdit /\ ButtonReleasedWith(CancelButton))
          => menuID' = NullID /\ last'.op = "cancel"]_vars

\* the number of times the list at path has been visited
Visits(path) ==
  Cardinality({n \in 1..Len(work.visited) : work.visited[n].path = path})

\* every list visited at most once, the outermost list once, and every
\* child list of a list that passed its checks once
VisitedOnce ==
  /\ Visits(<<>>) = 1
  /\ \A n \in 1..Len(work.visited):
       LET v == work.visited[n]
           items == ListAt(given, v.path)
       IN /\ Visits(v.path) = 1
          /\ \A k \in 1..Len(items):
               Visits(Append(v.path, k))
                 = IF v.ok /\ items[k].hasItems THEN 1 ELSE 0

\* C38: _updateItemAngles returns for every tree: no while loop runs its
\* body more often than the list has items before the index reaches the end
\* index of the wedge, and when the method has returned every child list
\* has been visited once
C38_Terminates ==
  /\ [](stage = "running" /\ work.call.active
          => work.call.iterations < Len(ListAt(work.items, work.call.path)))
  /\ <>(stage = "laid" /\ VisitedOnce)

\* the method has returned for a list of two items whose second item has
\* the fixed angle, so that the wedge runs over the end of the list, and
\* whose first item has a child list
C38_Witness ==
  /\ stage = "laid"
  /\ Len(given) = 2
  /\ given[1].angle = NoAngle
  /\ given[2].angle = Deg(90)
  /\ given[1].hasItems
  /\ Len(given[1].items) = 1
  /\ Len(work.visited) = 2
  /\ work.items[1].angle = Deg(270)
  /\ work.items[1].items[1].angle = Deg(270)

====
